---------------------------- MODULE Spec2Model ----------------------------
(***************************************************************************)
(* Model of obsidian-automation-scripts: the accomplishment extractor      *)
(* (parse-accomplishments.py), the daily-note merger                       *)
(* (update-obsidian-daily.py) and the companion utility that adds the      *)
(* accomplishments section to a log file (update-project-claudemd.py).     *)
(*                                                                         *)
(* Texts are sequences of tokens.  A token stands for the literal string   *)
(* it spells; the concrete text is the concatenation of its tokens.  The   *)
(* alphabet is chosen so that every regular-expression literal of the code *)
(* ("## Development Work", "\n", "##", "**", "-", ":", a date) is a token  *)
(* of its own and never straddles two tokens, so matching on tokens is     *)
(* matching on the spelled text.                                           *)
(***************************************************************************)
EXTENDS Naturals, Sequences, FiniteSets, TLC

VARIABLES
    note,               \* merger: the daily note file (File(text) or NoFile)
    accs,               \* merger: the records handed to update_daily_note
    readContent,        \* merger: the note as it was before the last call
    calls,              \* merger: update_daily_note calls made so far
    section_content,    \* merger: update_daily_note's local of that name
    content,            \* extractor: the text of one CLAUDE.md
    accomplishments,    \* extractor: what parse_accomplishments returned
    parsed,             \* extractor: parse_accomplishments has returned
    claude_files,       \* run: the files found, in traversal order
    fileIdx,            \* run: files processed so far by main's loop
    all_accomplishments,\* run: main's accumulated records
    reported,           \* run: indexes of the files whose parse printed an error
    runStatus,          \* run: "looping", "finished" or "aborted"
    argsVault,          \* main: --vault value, or None
    configFile,         \* main: config.json
    OBSIDIAN_VAULT_PATH,\* main: the module global
    existing,           \* main: the vault roots that exist on disk
    noteDirs,           \* main: vault roots whose daily-note directory exists
    notes,              \* main: vault root -> its daily note file
    vault_path,         \* main: the local of main(), or None
    pc,                 \* main: position in main()
    exitCode,           \* main: the process's exit status once pc = "done"
    invocations,        \* race: invocation -> its position and locals
    lastWriter,         \* race: the invocation whose write came last, or 0
    claude_md,          \* companion: the CLAUDE.md file update_claude_md is given
    claude_before,      \* companion: that file as it was before the first call
    returned,           \* companion: what the last call returned
    runs                \* companion: update_claude_md calls made so far

mergeVars == <<note, accs, readContent, calls, section_content>>
parseVars == <<content, accomplishments, parsed>>
runVars   == <<claude_files, fileIdx, all_accomplishments, reported, runStatus>>
mainVars  == <<argsVault, configFile, OBSIDIAN_VAULT_PATH, existing,
               noteDirs, notes, vault_path, pc, exitCode>>
raceVars  == <<invocations, lastWriter>>
claudeVars == <<claude_md, claude_before, returned, runs>>
vars      == <<mergeVars, parseVars, runVars, mainVars, raceVars, claudeVars>>

----------------------------------------------------------------------------
(* Tokens *)

NL    == "\n"
SP    == " "
H1    == "#"
H2    == "##"
H3    == "###"
DEV   == "## Development Work"
REC   == "## Recent Accomplishments"
DASH  == "-"
EM    == "**"
COLON == ":"
NOACC == "No development accomplishments logged today."

\* a file of the model: absent, or present with its text
NoFile  == [exists |-> FALSE, text |-> <<>>]
File(t) == [exists |-> TRUE, text |-> t]
None   == "None"

\* \s of the regular expressions and str.strip(): whitespace tokens
IsSpace(t) == t \in {NL, SP}

\* the tokens whose spelling begins with "##" (the lookahead \n##)
StartsWithH2(t) == t \in {H2, H3, DEV, REC}

\* line.startswith('*')
StartsWithStar(t) == t \in {EM, "*note*"}

----------------------------------------------------------------------------
(* Sequence helpers: str.join, str.split('\n'), str.strip *)

RECURSIVE Flatten(_)
Flatten(ss) == IF ss = <<>> THEN <<>> ELSE Head(ss) \o Flatten(Tail(ss))

\* '\n'.join(lines)
RECURSIVE JoinLines(_)
JoinLines(ls) ==
    IF ls = <<>> THEN <<>>
    ELSE IF Len(ls) = 1 THEN ls[1]
    ELSE ls[1] \o <<NL>> \o JoinLines(Tail(ls))

\* text.split('\n'): always at least one (possibly empty) line
RECURSIVE SplitLines(_)
SplitLines(t) ==
    IF \A i \in 1..Len(t) : t[i] # NL THEN <<t>>
    ELSE LET k == CHOOSE i \in 1..Len(t) :
                      t[i] = NL /\ \A j \in 1..(i-1) : t[j] # NL
         IN  <<SubSeq(t, 1, k-1)>> \o SplitLines(SubSeq(t, k+1, Len(t)))

\* str.strip()
RECURSIVE LStrip(_)
LStrip(t) == IF t # <<>> /\ IsSpace(Head(t)) THEN LStrip(Tail(t)) ELSE t

RECURSIVE RStrip(_)
RStrip(t) ==
    IF t # <<>> /\ IsSpace(t[Len(t)]) THEN RStrip(SubSeq(t, 1, Len(t)-1)) ELSE t

Strip(t) == RStrip(LStrip(t))

\* str.endswith('\n')
EndsWithNL(t) == t # <<>> /\ t[Len(t)] = NL

IsPrefix(p, t) == Len(p) <= Len(t) /\ SubSeq(t, 1, Len(p)) = p
IsSuffix(s, t) == Len(s) <= Len(t) /\ SubSeq(t, Len(t) - Len(s) + 1, Len(t)) = s

----------------------------------------------------------------------------
(* The regular expression shared by the extractor and the merger:          *)
(*   <heading>\s*\n(.*?)(?=\n##|\Z)   with re.DOTALL, used with re.search   *)

\* last position of the run of whitespace tokens that follows position i
RECURSIVE SpaceRunEnd(_, _)
SpaceRunEnd(t, i) ==
    IF i < Len(t) /\ IsSpace(t[i+1]) THEN SpaceRunEnd(t, i+1) ELSE i

\* \s*\n after the heading at i: \s* is greedy and gives back until \n fits,
\* so \n is the last newline of the whitespace run; 0 when the run has none
HeadingNewline(t, i) ==
    LET e  == SpaceRunEnd(t, i)
        ns == {k \in (i+1)..e : t[k] = NL}
    IN  IF ns = {} THEN 0 ELSE CHOOSE k \in ns : \A j \in ns : j <= k

\* the lookahead (?=\n##|\Z) at position p (the first token not yet consumed)
LookaheadHolds(t, p) ==
    \/ p = Len(t) + 1
    \/ p < Len(t) /\ t[p] = NL /\ StartsWithH2(t[p+1])

\* (.*?) is lazy: the group ends at the first position where the lookahead holds
GroupEnd(t, g) ==
    CHOOSE p \in g..(Len(t)+1) :
        LookaheadHolds(t, p) /\ \A q \in g..(p-1) : ~LookaheadHolds(t, q)

\* re.search: the leftmost heading token at which the whole pattern matches.
\* start/stop are match.start()/match.end() as 1-based positions: the match
\* covers t[start..stop-1]; group is the first position of group(1).
SectionSearch(t, heading) ==
    LET starts == {i \in 1..Len(t) : t[i] = heading /\ HeadingNewline(t, i) # 0}
    IN  IF starts = {} THEN [found |-> FALSE, start |-> 0, group |-> 0, stop |-> 0]
        ELSE LET i == CHOOSE k \in starts : \A j \in starts : k <= j
                 g == HeadingNewline(t, i) + 1
             IN  [found |-> TRUE, start |-> i, group |-> g, stop |-> GroupEnd(t, g)]

----------------------------------------------------------------------------
(* update-obsidian-daily.py: format_accomplishments_for_obsidian *)

\* the project names of the model, listed in the order Python's sorted()
\* gives them (string comparison)
ProjectNames == <<"alpha", "beta", "gamma">>
Projects == {ProjectNames[i] : i \in 1..Len(ProjectNames)}

\* f"  - {detail}" for every detail of a record
DetailLines(details) ==
    [i \in 1..Len(details) |-> <<SP, SP, DASH, SP>> \o details[i]]

\* f"- {acc['content']}" followed by the record's detail lines
RecordLines(acc) == <<<<DASH, SP>> \o acc.content>> \o DetailLines(acc.details)

\* projects[project]: the records of one project, in input order
ProjectRecords(as, p) == SelectSeq(as, LAMBDA a : a.project = p)

\* variant: projects.items() without sorted(), the names in the order of
\* their first record
InsertionOrderKeys(as) ==
    LET first(p) == CHOOSE i \in 1..Len(as) :
                        as[i].project = p /\ \A j \in 1..(i-1) : as[j].project # p
        keys == {as[i].project : i \in 1..Len(as)}
        RECURSIVE Build(_)
        Build(done) ==
            IF done = keys THEN <<>>
            ELSE LET p == CHOOSE q \in keys \ done :
                              \A r \in keys \ done : first(q) <= first(r)
                 IN  <<p>> \o Build(done \cup {p})
    IN  Build({})

\* sorted(projects.items()): the distinct project names, sorted
SortedKeys(as) ==
    SelectSeq(ProjectNames, LAMBDA p : \E i \in 1..Len(as) : as[i].project = p)

\* one project's block: heading, its records, and the "" appended after it
GroupLines(as, p) ==
    <<<<H3, SP, "[[", p, "]]">>>>
    \o Flatten([i \in 1..Len(ProjectRecords(as, p)) |->
                    RecordLines(ProjectRecords(as, p)[i])])
    \o <<<<>>>>

\* '\n'.join(lines).strip()
JoinStrip(ls) == Strip(JoinLines(ls))

format_accomplishments_for_obsidian(as) ==
    IF as = <<>> THEN <<NOACC>>
    ELSE LET keys == SortedKeys(as)
         IN  JoinStrip(Flatten([k \in 1..Len(keys) |-> GroupLines(as, keys[k])]))

----------------------------------------------------------------------------
(* update-obsidian-daily.py: update_daily_note *)

TargetDate == "2025-01-15"

\* target_date.strftime('%A') for the dates of the model
Weekday(d) == IF d = "2025-01-15" THEN "Wednesday" ELSE "Thursday"

\* f"{section_header}\n\n{section_content}"
full_section(as) == <<DEV, NL, NL>> \o format_accomplishments_for_obsidian(as)

\* the template written when the note does not exist
Template(as, d) ==
    <<H1, SP, d, SP, DASH, SP, Weekday(d), NL, NL,
      H2, SP, "Daily Review", NL, NL,
      H3, SP, "What went well today?", NL, NL, NL,
      H3, SP, "What could be improved?", NL, NL, NL,
      H3, SP, "Tomorrow's priorities", NL, NL, NL>>
    \o full_section(as)
    \o <<NL, NL, H2, SP, "Meeting Notes", NL, NL, NL,
         H2, SP, "Other Notes", NL, NL>>

\* the "Replace existing section" branch
ReplaceSection(old, m, as) ==
    SubSeq(old, 1, m.start - 1) \o full_section(as) \o SubSeq(old, m.stop, Len(old))

\* variant: "Add section at end" without the endswith('\n') test
AppendAlwaysNewline(old, as) == old \o <<NL>> \o <<NL>> \o full_section(as)

\* the "Add section at end" branch
AppendSection(old, as) ==
    (IF ~EndsWithNL(old) THEN old \o <<NL>> ELSE old) \o <<NL>> \o full_section(as)

\* the text written when the note exists: replace the section or append it
UpdatedText(old, as) ==
    LET m == SectionSearch(old, DEV)
    IN  IF m.found THEN ReplaceSection(old, m, as) ELSE AppendSection(old, as)

\* the note file after update_daily_note, given the file before
UpdatedNote(old, as, d) ==
    IF old.exists THEN File(UpdatedText(old.text, as)) ELSE File(Template(as, d))

----------------------------------------------------------------------------
(* parse-accomplishments.py: parse_accomplishments *)

\* the tokens of the model that match \d{4}-\d{2}-\d{2}
DateTokens == {"2025-01-15", "2025-01-16", "2025-13-99"}

\* datetime.strptime(token, '%Y-%m-%d') succeeds (no ValueError)
ValidDate(d) == d \in {"2025-01-15", "2025-01-16"}

NoMatch == [matched |-> FALSE, date |-> None, content |-> <<>>]

\* ^-?\s* : the line after an optional leading "-" and whitespace
AfterDash(line) == LStrip(IF line # <<>> /\ Head(line) = DASH THEN Tail(line) ELSE line)

\* :?\s*(.+)$ on the rest of a stripped line, then group(2).strip().
\* ":?" and "\s*" are greedy and give back when ".+" would be left empty.
SummaryMatch(d, rest) ==
    IF rest = <<>> THEN NoMatch
    ELSE LET greedy == LStrip(IF Head(rest) = COLON THEN Tail(rest) ELSE rest)
         IN  [matched |-> TRUE, date |-> d,
              content |-> Strip(IF greedy # <<>> THEN greedy ELSE rest)]

\* r'^-?\s*(\d{4}-\d{2}-\d{2}):?\s*(.+)$'
MatchPlain(line) ==
    LET r == AfterDash(line)
    IN  IF r # <<>> /\ Head(r) \in DateTokens
        THEN SummaryMatch(Head(r), Tail(r))
        ELSE NoMatch

\* r'^-?\s*\*\*(\d{4}-\d{2}-\d{2})\*\*:?\s*(.+)$'
MatchEmphasized(line) ==
    LET r == AfterDash(line)
    IN  IF Len(r) >= 3 /\ r[1] = EM /\ r[2] \in DateTokens /\ r[3] = EM
        THEN SummaryMatch(r[2], SubSeq(r, 4, Len(r)))
        ELSE NoMatch

\* for pattern in date_patterns: the first pattern that matches
DateLineMatch(line) ==
    IF MatchPlain(line).matched THEN MatchPlain(line) ELSE MatchEmphasized(line)

\* the loop state: the records so far and current_entry, kept as the index
\* of the record it refers to (0 is None)
EmptyScan == [accs |-> <<>>, cur |-> 0]

\* variant: "except ValueError" closing the open entry as a date other
\* than the target does
ProcessLineInvalidCloses(st, raw, project, target) ==
    LET line == Strip(raw)
        m == DateLineMatch(line)
    IN  IF line = <<>> \/ StartsWithStar(Head(line)) THEN st
        ELSE IF m.matched THEN
            IF ValidDate(m.date) /\ m.date = target
            THEN [accs |-> Append(st.accs, [project |-> project, date |-> m.date,
                                            content |-> m.content, details |-> <<>>]),
                  cur |-> Len(st.accs) + 1]
            ELSE [st EXCEPT !.cur = 0]
        ELSE IF st.cur # 0 /\ Head(line) = DASH /\ Strip(Tail(line)) # <<>>
            THEN [st EXCEPT !.accs[st.cur].details = Append(@, Strip(Tail(line)))]
            ELSE st

\* one iteration of "for line in lines"
ProcessLine(st, raw, project, target) ==
    LET line == Strip(raw)
        m == DateLineMatch(line)
    IN  IF line = <<>> \/ StartsWithStar(Head(line)) THEN st
        ELSE IF m.matched THEN
            IF ValidDate(m.date)
            THEN IF m.date = target
                 THEN [accs |-> Append(st.accs, [project |-> project, date |-> m.date,
                                                 content |-> m.content, details |-> <<>>]),
                       cur |-> Len(st.accs) + 1]
                 ELSE [st EXCEPT !.cur = 0]
            ELSE st
        ELSE IF st.cur # 0 /\ Head(line) = DASH /\ Strip(Tail(line)) # <<>>
            THEN [st EXCEPT !.accs[st.cur].details = Append(@, Strip(Tail(line)))]
            ELSE st

\* the loop over the first n lines
RECURSIVE ScanLines(_, _, _, _)
ScanLines(lines, n, project, target) ==
    IF n = 0 THEN EmptyScan
    ELSE ProcessLine(ScanLines(lines, n-1, project, target), lines[n], project, target)

\* section_content.split('\n') of the matched section; <<>> without a match
SectionLines(text) ==
    LET m == SectionSearch(text, REC)
    IN  IF m.found THEN SplitLines(SubSeq(text, m.group, m.stop - 1)) ELSE <<>>

\* a log file: its directory's name, whether open()/read() succeeds, its text
LogFile(p, r, t) == [project |-> p, readable |-> r, text |-> t]

\* variant: parse_accomplishments without its try/except, so that a failing
\* open() leaves the function as an exception
parse_accomplishments_no_try(file, target) ==
    IF ~file.readable
    THEN [records |-> <<>>, raised |-> TRUE, printed |-> FALSE]
    ELSE [records |-> ScanLines(SectionLines(file.text), Len(SectionLines(file.text)),
                                file.project, target).accs,
          raised |-> FALSE, printed |-> FALSE]

\* parse_accomplishments(file_path, target_date): the list returned, whether
\* an exception leaves the function, whether the except branch printed
parse_accomplishments(file, target) ==
    IF ~file.readable
    THEN [records |-> <<>>, raised |-> FALSE, printed |-> TRUE]
    ELSE [records |-> ScanLines(SectionLines(file.text), Len(SectionLines(file.text)),
                                file.project, target).accs,
          raised |-> FALSE, printed |-> FALSE]

----------------------------------------------------------------------------
(* update-obsidian-daily.py: get_config, and main()'s use of it *)

\* config.json: absent; present but not JSON; or an object whose
\* obsidian_vault_path is a path or is missing (None)
NoConfig      == [exists |-> FALSE, valid |-> FALSE, obsidian_vault_path |-> None]
CorruptConfig == [exists |-> TRUE, valid |-> FALSE, obsidian_vault_path |-> None]
Config(v)     == [exists |-> TRUE, valid |-> TRUE, obsidian_vault_path |-> v]

\* get_config() when the global OBSIDIAN_VAULT_PATH is g: the value
\* returned, or raised when json.load fails
GetConfig(cfg, g) ==
    IF cfg.exists
    THEN IF ~cfg.valid THEN [raised |-> TRUE, value |-> None]
         ELSE [raised |-> FALSE,
               value |-> IF cfg.obsidian_vault_path # None
                         THEN cfg.obsidian_vault_path ELSE g]
    ELSE [raised |-> FALSE, value |-> g]

get_config == GetConfig(configFile, OBSIDIAN_VAULT_PATH)

\* variant: main() without the existence check
VaultExistsUnchecked(v) == TRUE

\* vault_path.exists()
VaultExists(v) == v \in existing

----------------------------------------------------------------------------
(* Idle values: what a specification gives the variables it does not use *)

IdleMerge == /\ note = NoFile /\ accs = <<>> /\ readContent = NoFile
             /\ calls = 0 /\ section_content = <<>>
IdleParse == content = <<>> /\ accomplishments = <<>> /\ parsed = FALSE
IdleRun   == /\ claude_files = <<>> /\ fileIdx = 0 /\ all_accomplishments = <<>>
             /\ reported = {} /\ runStatus = "idle"
IdleMain  == /\ argsVault = None /\ configFile = NoConfig
             /\ OBSIDIAN_VAULT_PATH = None /\ existing = {} /\ noteDirs = {}
             /\ notes = <<>> /\ vault_path = None /\ pc = "idle" /\ exitCode = 0
IdleRace  == invocations = <<>> /\ lastWriter = 0
IdleClaude == /\ claude_md = NoFile /\ claude_before = NoFile
              /\ returned = FALSE /\ runs = 0

----------------------------------------------------------------------------
(* SpecMerge: update_daily_note applied to bounded notes and record lists *)

MaxNoteLines == 5
MaxCalls == 2

RECURSIVE SeqsUpTo(_, _)
SeqsUpTo(S, n) ==
    IF n = 0 THEN {<<>>}
    ELSE LET shorter == SeqsUpTo(S, n-1)
         IN  shorter \cup {Append(q, x) : q \in {r \in shorter : Len(r) = n-1}, x \in S}

\* the lines a note of the model is made of
NoteLines == { <<>>, <<"old text">>, <<DEV>>, <<H2, SP, "Other">> }

\* every text of 1..MaxNoteLines lines; <<>> alone is the empty file and a
\* final <<>> line is a trailing newline
NoteTexts == {JoinLines(ls) : ls \in SeqsUpTo(NoteLines, MaxNoteLines) \ {<<>>}}

Rec(p, c, ds) == [project |-> p, date |-> TargetDate, content |-> c, details |-> ds]

\* the record lists handed to the merger: none, one project, two projects
MergeInputs ==
    { <<>>,
      <<Rec("alpha", <<"did X">>, <<<<"detail">>>>)>>,
      <<Rec("beta", <<"did Y">>, <<>>), Rec("alpha", <<"did X">>, <<<<"detail">>>>)>> }

InitMerge ==
    /\ note \in {File(t) : t \in NoteTexts} \cup {NoFile}
    /\ accs \in MergeInputs
    /\ readContent = NoFile
    /\ calls = 0
    /\ section_content = <<>>
    /\ IdleParse /\ IdleRun /\ IdleMain /\ IdleRace /\ IdleClaude

\* the records of SpecFormat: three projects, a summary with two details
\* and a summary with none
FormatRecords ==
    {Rec(p, <<"did X">>, <<<<"detail">>, <<"more">>>>) : p \in Projects}
    \cup {Rec(p, <<"did Y">>, <<>>) : p \in Projects}

MaxRecords == 3

\* SpecFormat: a new note is created from every record list of up to
\* MaxRecords records
InitFormat ==
    /\ note = NoFile
    /\ accs \in SeqsUpTo(FormatRecords, MaxRecords)
    /\ readContent = NoFile
    /\ calls = 0
    /\ section_content = <<>>
    /\ IdleParse /\ IdleRun /\ IdleMain /\ IdleRace /\ IdleClaude

\* one call of update_daily_note(accs, TargetDate) on the note file
update_daily_note ==
    /\ calls < MaxCalls
    /\ readContent' = note
    /\ note' = UpdatedNote(note, accs, TargetDate)
    /\ calls' = calls + 1
    /\ section_content' = format_accomplishments_for_obsidian(accs)
    /\ UNCHANGED <<accs, parseVars, runVars, mainVars, raceVars, claudeVars>>

NextMerge == update_daily_note

SpecMerge  == InitMerge /\ [][NextMerge]_vars
SpecFormat == InitFormat /\ [][NextMerge]_vars

----------------------------------------------------------------------------
(* Claims about update_daily_note (SpecMerge) *)

\* a line that is a "##" heading / the "## Development Work" heading line
IsHeadingLine(l) == l # <<>> /\ StartsWithH2(l[1])
IsDevHeadingLine(l) == RStrip(l) = <<DEV>>

\* the text of lines a..b of ls, each with its line end (the last line of
\* the file has none)
LinesText(ls, a, b) ==
    JoinLines(SubSeq(ls, a, b)) \o (IF a <= b /\ b < Len(ls) THEN <<NL>> ELSE <<>>)

\* index of the first "## Development Work" heading line, 0 if there is none
FirstDevLine(ls) ==
    LET ds == {i \in 1..Len(ls) : IsDevHeadingLine(ls[i])}
    IN  IF ds = {} THEN 0 ELSE CHOOSE i \in ds : \A j \in ds : i <= j

\* index of the first "##" heading line after line i, 0 if there is none
NextHeadingLine(ls, i) ==
    LET hs == {j \in (i+1)..Len(ls) : IsHeadingLine(ls[j])}
    IN  IF hs = {} THEN 0 ELSE CHOOSE j \in hs : \A k \in hs : j <= k

\* the last call found an existing note with one "## Development Work"
\* heading line, a body of zero or more non-heading lines, and another ##
\* heading
SectionThenHeading ==
    /\ calls > 0
    /\ readContent.exists
    /\ LET ls == SplitLines(readContent.text)
       IN  /\ FirstDevLine(ls) # 0
           /\ NextHeadingLine(ls, FirstDevLine(ls)) # 0
           /\ Cardinality({i \in 1..Len(ls) : IsDevHeadingLine(ls[i])}) = 1

\* C1: when the note read has a "## Development Work" heading line, a body
\* of zero or more non-heading lines and then another ## heading, the
\* written note starts with all the text before the heading line and ends
\* with all the text from the next ## heading on, both unchanged.
C1_OnlySectionReplaced ==
    SectionThenHeading =>
        LET ls     == SplitLines(readContent.text)
            i      == FirstDevLine(ls)
            j      == NextHeadingLine(ls, i)
            before == LinesText(ls, 1, i-1)
            after  == LinesText(ls, j, Len(ls))
        IN  /\ IsPrefix(before, note.text)
            /\ IsSuffix(after, note.text)
            /\ Len(before) + Len(after) <= Len(note.text)

\* the last call found an existing note without any "## Development Work"
NoSectionBefore ==
    /\ calls > 0
    /\ readContent.exists
    /\ \A i \in 1..Len(readContent.text) : readContent.text[i] # DEV

\* number of newlines the text ends with
RECURSIVE TrailingNewlines(_)
TrailingNewlines(t) ==
    IF EndsWithNL(t) THEN 1 + TrailingNewlines(SubSeq(t, 1, Len(t)-1)) ELSE 0

\* number of blank lines directly above the first "## Development Work"
\* heading line of the text
BlankLinesAboveSection(t) ==
    LET ls == SplitLines(t)
        h  == FirstDevLine(ls)
        blank(k) == Strip(ls[k]) = <<>>
    IN  Cardinality({k \in 1..(h-1) : \A m \in k..(h-1) : blank(m)})

\* C2 as stated: a note without the section is kept as a prefix, the heading
\* and rendered body end the file, and exactly one blank line stands between
\* the old content and the new heading, whatever the old content ends with.
C2_OneBlankLineAlways ==
    NoSectionBefore =>
        /\ IsPrefix(readContent.text, note.text)
        /\ IsSuffix(full_section(accs), note.text)
        /\ BlankLinesAboveSection(note.text) = 1

\* C2 (amended): a note without the section is kept as a prefix, followed
\* by a newline if it does not end with one, one more newline, and the
\* heading and rendered body, which end the file; exactly one blank line
\* stands above the new heading when the old content is not blank and ends
\* with at most one newline.
C2_AppendedAfterOldContent ==
    NoSectionBefore =>
        LET old == readContent.text
            pad == IF TrailingNewlines(old) = 0 THEN <<NL>> ELSE <<>>
        IN  /\ note.text = old \o pad \o <<NL, DEV, NL, NL>>
                               \o format_accomplishments_for_obsidian(accs)
            /\ (Strip(old) # <<>> /\ TrailingNewlines(old) <= 1)
                   => BlankLinesAboveSection(note.text) = 1

\* C2 witness: a note ending in one newline, without the section, was
\* merged with a non-empty record list
C2_Witness ==
    /\ NoSectionBefore
    /\ accs # <<>>
    /\ Strip(readContent.text) # <<>>
    /\ TrailingNewlines(readContent.text) = 1
    /\ BlankLinesAboveSection(note.text) = 1

\* C13: update_daily_note called again with the same records and date on
\* a note that existed before the first call leaves the note as the first
\* call wrote it.
C13_RemergeIdempotent ==
    [][(calls >= 1 /\ readContent.exists) => note' = note]_vars

----------------------------------------------------------------------------
(* SpecParse, SpecEmph: parse_accomplishments applied to bounded log texts *)

MaxLogLines == 4

OtherDate == "2025-01-16"
BadDate   == "2025-13-99"

\* an entry line: leading "-" or not, emphasized date or not, ":" or not
EntryLine(dash, emph, d, colon, summary) ==
    (IF dash THEN <<DASH, SP>> ELSE <<>>)
    \o (IF emph THEN <<EM, d, EM>> ELSE <<d>>)
    \o (IF colon THEN <<COLON>> ELSE <<>>)
    \o <<SP>> \o summary

DetailLine == <<SP, SP, DASH, SP, "detail">>

\* the lines of SpecParse's logs: headings, blank lines, plain entries of
\* the target date, another date and an impossible date, a dated line
\* without summary, a detail line
ParseLineShapes ==
    { <<>>, <<REC>>, <<H2, SP, "Next">>,
      EntryLine(TRUE, FALSE, TargetDate, TRUE, <<"did X">>),
      EntryLine(TRUE, FALSE, OtherDate, TRUE, <<"other">>),
      EntryLine(TRUE, FALSE, BadDate, TRUE, <<"bad">>),
      <<DASH, SP, OtherDate>>,
      DetailLine }

\* the lines of SpecEmph's logs: the emphasized target entry in its four
\* spellings, an emphasized entry of another date, a plain target entry
EmphLineShapes ==
    { <<REC>>, DetailLine,
      EntryLine(TRUE, FALSE, TargetDate, TRUE, <<"did X">>),
      EntryLine(FALSE, TRUE, OtherDate, TRUE, <<"other">>) }
    \cup { EntryLine(dash, TRUE, TargetDate, colon, <<"released v2">>) :
               dash \in BOOLEAN, colon \in BOOLEAN }

LogTexts(shapes) == {JoinLines(ls) : ls \in SeqsUpTo(shapes, MaxLogLines) \ {<<>>}}

InitParse ==
    /\ content \in LogTexts(ParseLineShapes)
    /\ accomplishments = <<>>
    /\ parsed = FALSE
    /\ IdleMerge /\ IdleRun /\ IdleMain /\ IdleRace /\ IdleClaude

InitEmph ==
    /\ content \in LogTexts(EmphLineShapes)
    /\ accomplishments = <<>>
    /\ parsed = FALSE
    /\ IdleMerge /\ IdleRun /\ IdleMain /\ IdleRace /\ IdleClaude

\* parse_accomplishments(<alpha>/CLAUDE.md, TargetDate) on a readable file
Parse ==
    /\ ~parsed
    /\ accomplishments' =
           parse_accomplishments(LogFile("alpha", TRUE, content), TargetDate).records
    /\ parsed' = TRUE
    /\ UNCHANGED <<content, mergeVars, runVars, mainVars, raceVars, claudeVars>>

NextParse == Parse

SpecParse == InitParse /\ [][NextParse]_vars
SpecEmph  == InitEmph /\ [][NextParse]_vars

----------------------------------------------------------------------------
(* Claims about parse_accomplishments *)

\* the line begins with a date marker: optional "-", then a YYYY-MM-DD
\* token, plain or emphasized
BeginsWithDateMarker(l) ==
    LET r == AfterDash(Strip(l))
    IN  \/ r # <<>> /\ Head(r) \in DateTokens
        \/ Len(r) >= 3 /\ r[1] = EM /\ r[2] \in DateTokens /\ r[3] = EM

\* the date token and the summary tokens of a line that begins with a
\* date marker
MarkerDate(l) ==
    LET r == AfterDash(Strip(l)) IN IF Head(r) = EM THEN r[2] ELSE r[1]
MarkerSummary(l) ==
    LET r == AfterDash(Strip(l))
        rest == IF Head(r) = EM THEN SubSeq(r, 4, Len(r)) ELSE Tail(r)
    IN  Strip(IF rest # <<>> /\ Head(rest) = COLON THEN Tail(rest) ELSE rest)

\* a dated entry as the log format defines it: date marker and a summary
IsEntryLine(l) == BeginsWithDateMarker(l) /\ MarkerSummary(l) # <<>>
IsTargetEntry(l) == IsEntryLine(l) /\ MarkerDate(l) = TargetDate
IsOtherEntry(l) ==
    IsEntryLine(l) /\ ValidDate(MarkerDate(l)) /\ MarkerDate(l) # TargetDate

\* a "-" line that is not a dated line
IsDetailLine(l) ==
    Strip(l) # <<>> /\ Head(Strip(l)) = DASH /\ ~BeginsWithDateMarker(l)

\* the line indexes of the accomplishments section: after the first
\* "## Recent Accomplishments" heading line, before the next "##" line
AccomplishmentLineRange(ls) ==
    LET hs == {i \in 1..Len(ls) : RStrip(ls[i]) = <<REC>>}
        h  == CHOOSE i \in hs : \A j \in hs : i <= j
        n  == NextHeadingLine(ls, h)
    IN  IF hs = {} THEN {}
        ELSE (h+1)..(IF n = 0 THEN Len(ls) ELSE n-1)

\* C3 (logs with one "## Recent Accomplishments" heading): every record
\* returned comes from an entry line inside the
\* accomplishments section (after the heading line, before the next line
\* beginning with ## or the end); entry lines at or after the next heading
\* produce no record.
C3_RecordsFromSectionOnly ==
    (parsed /\ Cardinality({i \in 1..Len(content) : content[i] = REC}) <= 1) =>
        LET ls == SplitLines(content)
            inside == {k \in AccomplishmentLineRange(ls) : IsTargetEntry(ls[k])}
        IN  /\ Len(accomplishments) <= Cardinality(inside)
            /\ \A i \in 1..Len(accomplishments) :
                   \E k \in inside : MarkerSummary(ls[k]) = accomplishments[i].content

\* the loop state after the first n lines of the section the code scans
ScanAfter(n) == ScanLines(SectionLines(content), n, "alpha", TargetDate)

\* C4: "-" lines after a target-date entry are appended to that record's
\* details in order, and a line that begins with a date marker ends the
\* accumulation: the records as they stand before that line are never
\* changed by it or by any later line.
C4_DetailsStopAtDatedLine ==
    parsed =>
        LET ls == SectionLines(content)
        IN  /\ \A k \in 1..Len(ls) :
                   (IsDetailLine(ls[k]) /\ ScanAfter(k-1).cur # 0) =>
                       LET before == ScanAfter(k-1)
                       IN  ScanAfter(k).accs =
                               [before.accs EXCEPT ![before.cur].details =
                                    Append(@, Strip(Tail(Strip(ls[k]))))]
            /\ \A k \in 1..Len(ls) :
                   BeginsWithDateMarker(ls[k]) =>
                       IsPrefix(ScanAfter(k-1).accs, accomplishments)

\* the line with the emphasis markers around its date removed
PlainLine(l) ==
    LET r   == AfterDash(Strip(l))
        pre == SubSeq(l, 1, Len(l) - Len(LStrip(l)))
               \o SubSeq(LStrip(l), 1, Len(LStrip(l)) - Len(r))
    IN  IF IsEntryLine(l) /\ Head(r) = EM
        THEN pre \o <<r[2]>> \o SubSeq(r, 4, Len(r))
        ELSE l

\* the log with every emphasized entry line replaced by its plain-date line
PlainLog(t) ==
    JoinLines([k \in 1..Len(SplitLines(t)) |-> PlainLine(SplitLines(t)[k])])

\* C5: a log with emphasized entry lines (with or without leading "-", with
\* or without ":") yields the same records as the log with the plain-date
\* lines in their place.
C5_EmphasizedSameAsPlain ==
    parsed =>
        accomplishments =
            parse_accomplishments(LogFile("alpha", TRUE, PlainLog(content)),
                                  TargetDate).records

\* C6: every record returned has the target date, and the "-" lines that
\* follow an entry of another date are attached to no record.
C6_OnlyTargetDate ==
    parsed =>
        LET ls == SectionLines(content)
        IN  /\ \A i \in 1..Len(accomplishments) : accomplishments[i].date = TargetDate
            /\ \A k \in 1..Len(ls) : \A m \in k..Len(ls) :
                   (IsOtherEntry(ls[k]) /\ \A j \in (k+1)..m : IsDetailLine(ls[j]))
                       => ScanAfter(m).accs = ScanAfter(k-1).accs

\* a line of date-entry shape whose date token is no calendar date
IsImpossibleEntry(l) == IsEntryLine(l) /\ MarkerDate(l) = BadDate

\* the lines without line k
RemoveAt(ls, k) == SubSeq(ls, 1, k-1) \o SubSeq(ls, k+1, Len(ls))

\* C12: a line of date-entry shape whose date token is not a calendar date
\* emits no record and raises no error: the records and the open entry are
\* after the line what they were before it, the scan goes on with the
\* lines after it, and the result is the result for the section without
\* that line.
C12_InvalidDateIgnored ==
    parsed =>
        LET ls == SectionLines(content)
            r  == parse_accomplishments(LogFile("alpha", TRUE, content), TargetDate)
        IN  \A k \in 1..Len(ls) :
                IsImpossibleEntry(ls[k]) =>
                    /\ ScanAfter(k) = ScanAfter(k-1)
                    /\ ~r.raised /\ ~r.printed
                    /\ accomplishments = ScanAfter(Len(ls)).accs
                    /\ accomplishments =
                           ScanLines(RemoveAt(ls, k), Len(ls) - 1, "alpha", TargetDate).accs

\* C12 witness: an impossible-date line stands between two target entries
\* of the section, and both are returned
C12_Witness ==
    /\ parsed
    /\ \E k \in 2..(Len(SectionLines(content)) - 1) :
           /\ IsImpossibleEntry(SectionLines(content)[k])
           /\ Len(ScanAfter(k-1).accs) = 1
           /\ Len(accomplishments) = 2

----------------------------------------------------------------------------
(* Claims about format_accomplishments_for_obsidian (SpecFormat) *)

\* position of a project name in lexicographic order
Rank(p) == CHOOSE i \in 1..Len(ProjectNames) : ProjectNames[i] = p

\* the lines one record is rendered as: "- summary", then "  - detail"s
ExpectedRecordLines(r) ==
    <<<<DASH, SP>> \o r.content>>
    \o [i \in 1..Len(r.details) |-> <<SP, SP, DASH, SP>> \o r.details[i]]

\* the lines of all records of project p, in input order
RECURSIVE ExpectedProjectLines(_, _)
ExpectedProjectLines(as, p) ==
    IF as = <<>> THEN <<>>
    ELSE (IF Head(as).project = p THEN ExpectedRecordLines(Head(as)) ELSE <<>>)
         \o ExpectedProjectLines(Tail(as), p)

IsProjectHeading(l) == Len(l) = 5 /\ l[1] = H3 /\ l[2] = SP /\ l[3] = "[[" /\ l[5] = "]]"

\* C7: no records render as the fixed sentence; otherwise the rendering is
\* one group per distinct project, groups in lexicographic order of
\* project name, each group its heading line and its records' lines in
\* input order, and exactly one blank line between consecutive groups.
C7_GroupedSortedRendering ==
    calls > 0 =>
        LET ls    == SplitLines(section_content)
            heads == {k \in 1..Len(ls) : IsProjectHeading(ls[k])}
            next(k) == IF \E n \in heads : n > k
                       THEN CHOOSE n \in heads : n > k /\ \A o \in heads : o > k => n <= o
                       ELSE Len(ls) + 1
        IN  IF accs = <<>> THEN section_content = <<NOACC>>
            ELSE /\ 1 \in heads
                 /\ {ls[k][4] : k \in heads} = {accs[i].project : i \in 1..Len(accs)}
                 /\ \A k, n \in heads : k < n => Rank(ls[k][4]) < Rank(ls[n][4])
                 /\ \A k \in heads :
                        SubSeq(ls, k+1, next(k)-1) =
                            ExpectedProjectLines(accs, ls[k][4])
                            \o (IF next(k) <= Len(ls) THEN <<<<>>>> ELSE <<>>)

\* C7 witness: three records of two projects, given out of name order and
\* with details, have been rendered
C7_Witness ==
    /\ calls > 0
    /\ Len(accs) = 3
    /\ Rank(accs[1].project) > Rank(accs[2].project)
    /\ accs[3].project = accs[1].project
    /\ accs[3].details # <<>>
    /\ Cardinality({k \in 1..Len(SplitLines(section_content)) :
                        SplitLines(section_content)[k] = <<>>}) = 1

----------------------------------------------------------------------------
(* SpecRun: main() of parse-accomplishments.py over bounded file lists *)

MaxFiles == 3

\* the texts of SpecRun's files: one with a target entry and a detail, one
\* with an entry of another date only
RunTexts ==
    { JoinLines(<< <<REC>>, EntryLine(TRUE, FALSE, TargetDate, TRUE, <<"did X">>),
                   DetailLine >>),
      JoinLines(<< <<REC>>, EntryLine(TRUE, FALSE, OtherDate, TRUE, <<"other">>) >>) }

RunFiles == {LogFile(p, r, t) : p \in {"alpha", "beta"}, r \in BOOLEAN, t \in RunTexts}

InitRun ==
    /\ claude_files \in SeqsUpTo(RunFiles, MaxFiles)
    /\ fileIdx = 0
    /\ all_accomplishments = <<>>
    /\ reported = {}
    /\ runStatus = "looping"
    /\ IdleMerge /\ IdleParse /\ IdleMain /\ IdleRace /\ IdleClaude

\* one iteration of "for file_path in claude_files"; an exception leaving
\* parse_accomplishments would leave main() too
ParseNextFile ==
    /\ runStatus = "looping"
    /\ fileIdx < Len(claude_files)
    /\ LET r == parse_accomplishments(claude_files[fileIdx + 1], TargetDate)
       IN  IF r.raised
           THEN /\ runStatus' = "aborted"
                /\ UNCHANGED <<fileIdx, all_accomplishments, reported>>
           ELSE /\ all_accomplishments' = all_accomplishments \o r.records
                /\ fileIdx' = fileIdx + 1
                /\ reported' = IF r.printed THEN reported \cup {fileIdx + 1} ELSE reported
                /\ UNCHANGED runStatus
    /\ UNCHANGED <<claude_files, mergeVars, parseVars, mainVars, raceVars, claudeVars>>

\* the loop is over: main() returns all_accomplishments
FinishRun ==
    /\ runStatus = "looping"
    /\ fileIdx = Len(claude_files)
    /\ runStatus' = "finished"
    /\ UNCHANGED <<claude_files, fileIdx, all_accomplishments, reported,
                   mergeVars, parseVars, mainVars, raceVars, claudeVars>>

NextRun == ParseNextFile \/ FinishRun

SpecRun == InitRun /\ [][NextRun]_vars

\* what a run over the given files collects
RECURSIVE Collected(_)
Collected(files) ==
    IF files = <<>> THEN <<>>
    ELSE parse_accomplishments(Head(files), TargetDate).records \o Collected(Tail(files))

\* C8: a file whose read fails does not abort the run and contributes no
\* records; the run collects exactly what a run over the other files
\* collects, in the same order.
C8_ReadFailureIsolated ==
    /\ runStatus # "aborted"
    /\ runStatus = "finished" =>
           all_accomplishments =
               Collected(SelectSeq(claude_files, LAMBDA f : f.readable))

\* C8 witness: a finished run of three files, the middle one unreadable,
\* with records collected from the files before and after it
C8_Witness ==
    /\ runStatus = "finished"
    /\ Len(claude_files) = 3
    /\ ~claude_files[2].readable
    /\ reported = {2}
    /\ Len(all_accomplishments) = 2
    /\ all_accomplishments[1].project # all_accomplishments[2].project

----------------------------------------------------------------------------
(* SpecMain: main() of update-obsidian-daily.py *)

Vaults == {"/vaults/a", "/vaults/b", "/vaults/c"}

InitMain ==
    /\ argsVault \in Vaults \cup {None}
    /\ configFile \in {NoConfig, CorruptConfig} \cup {Config(v) : v \in Vaults \cup {None}}
    /\ OBSIDIAN_VAULT_PATH \in Vaults
    /\ existing \in SUBSET Vaults
    /\ notes \in [Vaults -> {NoFile, File(<<"old text", NL>>)}]
    /\ \A v \in Vaults : notes[v].exists => v \in existing
    /\ noteDirs = {v \in Vaults : notes[v].exists}
    /\ vault_path = None
    /\ pc = "start"
    /\ exitCode = 0
    /\ accs = <<>> /\ note = NoFile /\ readContent = NoFile /\ calls = 0
    /\ section_content = <<>>
    /\ IdleParse /\ IdleRun /\ IdleRace /\ IdleClaude

\* lines 177-190: parse the arguments, override the global when --vault
\* is given
ApplyArgs ==
    /\ pc = "start"
    /\ OBSIDIAN_VAULT_PATH' = IF argsVault # None THEN argsVault ELSE OBSIDIAN_VAULT_PATH
    /\ pc' = "check"
    /\ UNCHANGED <<argsVault, configFile, existing, noteDirs, notes, vault_path,
                   exitCode, mergeVars, parseVars, runVars, raceVars, claudeVars>>

\* lines 192-200: resolve the vault and check that it exists; an exception
\* from get_config ends the process with status 1
CheckVault ==
    /\ pc = "check"
    /\ IF get_config.raised
       THEN /\ exitCode' = 1 /\ pc' = "done" /\ UNCHANGED vault_path
       ELSE /\ vault_path' = get_config.value
            /\ IF ~VaultExists(get_config.value)
               THEN exitCode' = 1 /\ pc' = "done"
               ELSE pc' = "gather" /\ UNCHANGED exitCode
    /\ UNCHANGED <<argsVault, configFile, OBSIDIAN_VAULT_PATH, existing, noteDirs,
                   notes, mergeVars, parseVars, runVars, raceVars, claudeVars>>

\* lines 202-209: run_accomplishment_parser hands back the day's records
\* ([] when the parser fails)
Gather ==
    /\ pc = "gather"
    /\ accs' \in MergeInputs
    /\ pc' = "update"
    /\ UNCHANGED <<argsVault, configFile, OBSIDIAN_VAULT_PATH, existing, noteDirs,
                   notes, vault_path, exitCode, note, readContent, calls,
                   section_content, parseVars, runVars, raceVars, claudeVars>>

\* lines 211-216: update_daily_note under the vault get_daily_note_path
\* resolves: mkdir(parents=True), then write the note; return 0
UpdateNote ==
    /\ pc = "update"
    /\ LET v == get_config.value
       IN  /\ existing' = existing \cup {v}
           /\ noteDirs' = noteDirs \cup {v}
           /\ notes' = [notes EXCEPT ![v] = UpdatedNote(notes[v], accs, TargetDate)]
    /\ exitCode' = 0
    /\ pc' = "done"
    /\ UNCHANGED <<argsVault, configFile, OBSIDIAN_VAULT_PATH, vault_path,
                   mergeVars, parseVars, runVars, raceVars, claudeVars>>

NextMain == ApplyArgs \/ CheckVault \/ Gather \/ UpdateNote

SpecMain == InitMain /\ [][NextMain]_vars

\* the vault root main() resolves, from any position: get_config() once
\* the --vault override has been applied to the global
ResolvedVault ==
    GetConfig(configFile,
              IF pc = "start" /\ argsVault # None THEN argsVault ELSE OBSIDIAN_VAULT_PATH)

ResolvedVaultMissing == ~ResolvedVault.raised /\ ResolvedVault.value \notin existing

\* C9: when the resolved vault root does not exist the run ends with a
\* non-zero exit code, and no step of it creates a directory or writes or
\* changes a note.
C9_MissingVaultAborts ==
    /\ [](ResolvedVaultMissing /\ pc = "done" => exitCode # 0)
    /\ [](ResolvedVaultMissing => pc \in {"start", "check", "done"})
    /\ [][ResolvedVaultMissing => UNCHANGED <<existing, noteDirs, notes>>]_vars

\* C9 witness: the run has ended with exit code 1 on a missing vault root
C9_Witness ==
    /\ pc = "done"
    /\ vault_path # None
    /\ vault_path \notin existing
    /\ exitCode = 1

\* C10: with --vault given, the vault root checked for existence and used
\* for the daily note is the --vault value, whatever config.json and the
\* environment say.
C10_OverrideWins ==
    (argsVault # None /\ pc \in {"gather", "update", "done"}) =>
        /\ vault_path # None => vault_path = argsVault
        /\ (pc = "done" /\ exitCode = 0) => notes[argsVault].exists

----------------------------------------------------------------------------
(* SpecRace: two invocations of update_daily_note on the same note file,  *)
(* each statement that touches the file a step of its own                 *)

Invocations == {1, 2}

Other(i) == IF i = 1 THEN 2 ELSE 1

\* the number of characters a text spells
RECURSIVE ByteLen(_)
ByteLen(t) == IF t = <<>> THEN 0 ELSE Len(Head(t)) + ByteLen(Tail(t))

\* what is left of a longer text behind a shorter one written over its start
Rest == "<rest of the longer text>"

\* variant: the file opened with 'a', the text written at its end
WriteAtEnd(cur, new) == cur \o new

\* f.write(new) and close on a file opened with 'w': the text goes to
\* offset 0 of the file as it is by then; what the file holds beyond the
\* end of the text stays
WriteAtStart(cur, new) ==
    IF ByteLen(cur) > ByteLen(new) THEN new \o <<Rest>> ELSE new

\* the notes the two invocations start from
RaceNotes ==
    { NoFile,
      File(<<>>),
      File(<<"old text", NL>>),
      File(<<"old text", NL, NL, DEV, NL, NL, "stale", NL, NL, H2, SP, "Other", NL>>) }

Invocation(as) ==
    [pc |-> "start", accomplishments |-> as, content |-> NoFile, new_content |-> <<>>]

InitRace ==
    /\ note \in RaceNotes
    /\ invocations \in [Invocations -> {Invocation(as) : as \in MergeInputs}]
    /\ lastWriter = 0
    /\ accs = <<>> /\ readContent = NoFile /\ calls = 0 /\ section_content = <<>>
    /\ IdleParse /\ IdleRun /\ IdleMain /\ IdleClaude

\* what the steps of an invocation leave alone
raceRest == <<accs, readContent, calls, section_content,
              parseVars, runVars, mainVars, claudeVars>>

\* lines 104-114: build full_section, then daily_note_path.exists(); when
\* the file is not there the template is the text to write
CheckExists(i) ==
    /\ invocations[i].pc = "start"
    /\ invocations' =
         [invocations EXCEPT
            ![i].pc = IF note.exists THEN "read" ELSE "open",
            ![i].new_content =
                IF note.exists THEN <<>>
                ELSE Template(invocations[i].accomplishments, TargetDate)]
    /\ UNCHANGED <<note, lastWriter, raceRest>>

\* lines 116-130: read the whole file, compute new_content from it
ReadNote(i) ==
    /\ invocations[i].pc = "read"
    /\ invocations' =
         [invocations EXCEPT
            ![i].pc = "open",
            ![i].content = note,
            ![i].new_content = UpdatedText(note.text, invocations[i].accomplishments)]
    /\ UNCHANGED <<note, lastWriter, raceRest>>

\* lines 133 and 164: open(daily_note_path, 'w') creates the file or
\* truncates it
OpenForWrite(i) ==
    /\ invocations[i].pc = "open"
    /\ note' = File(<<>>)
    /\ invocations' = [invocations EXCEPT ![i].pc = "write"]
    /\ UNCHANGED <<lastWriter, raceRest>>

\* lines 134 and 165: f.write and the close that flushes it
WriteNote(i) ==
    /\ invocations[i].pc = "write"
    /\ note' = File(WriteAtStart(note.text, invocations[i].new_content))
    /\ invocations' = [invocations EXCEPT ![i].pc = "done"]
    /\ lastWriter' = i
    /\ UNCHANGED raceRest

NextRace ==
    \E i \in Invocations :
        CheckExists(i) \/ ReadNote(i) \/ OpenForWrite(i) \/ WriteNote(i)

SpecRace == InitRace /\ [][NextRace]_vars

----------------------------------------------------------------------------
(* Claim of the concurrent merge *)

AllDone == \A i \in Invocations : invocations[i].pc = "done"

\* the whole-file content invocation i computes from what it read
Computed(i) ==
    IF invocations[i].content.exists
    THEN UpdatedText(invocations[i].content.text, invocations[i].accomplishments)
    ELSE Template(invocations[i].accomplishments, TargetDate)

\* sub occurs in t
Contains(t, sub) ==
    \E k \in 0..(Len(t) - Len(sub)) : SubSeq(t, k + 1, k + Len(sub)) = sub

\* C11 as stated: whatever the interleaving, both invocations end and the
\* final note is exactly the whole-file content the invocation that wrote
\* last computed from the text it read.
C11_LastWriterWins ==
    AllDone =>
        /\ lastWriter \in Invocations
        /\ note = File(Computed(lastWriter))

\* C11 amended: whatever the interleaving, no invocation ends in an error
\* and once both have ended the final note begins with the whole-file
\* content the invocation that wrote last computed from the text it read;
\* it is exactly that content unless the other invocation, whose content is
\* longer, wrote between the last writer's open and its write, and then the
\* rest of the other's content stays behind it.
C11_LastWriterFirst ==
    /\ \A i \in Invocations :
         invocations[i].pc \in {"start", "read", "open", "write", "done"}
    /\ AllDone =>
         /\ lastWriter \in Invocations
         /\ note.exists
         /\ invocations[lastWriter].new_content = Computed(lastWriter)
         /\ IsPrefix(Computed(lastWriter), note.text)
         /\ \/ note.text = Computed(lastWriter)
            \/ /\ note.text = Computed(lastWriter) \o <<Rest>>
               /\ ByteLen(Computed(Other(lastWriter))) > ByteLen(Computed(lastWriter))

\* C11 witness: both invocations have ended, the note is the last writer's
\* content and the section body the other one wrote is not in it
C11_Witness ==
    /\ AllDone
    /\ note.text = Computed(lastWriter)
    /\ invocations[1].accomplishments # invocations[2].accomplishments
    /\ ~Contains(note.text,
                 format_accomplishments_for_obsidian(
                     invocations[Other(lastWriter)].accomplishments))

----------------------------------------------------------------------------
(* update-project-claudemd.py: update_claude_md *)

H3REC == "### Recent Accomplishments"
GUIDE == "## Accomplishment Logging Guidelines"

\* ACCOMPLISHMENT_SECTION.format(date=today)
ACCOMPLISHMENT_SECTION(today) ==
    <<REC, NL, NL,
      "*Log major tasks, features, and fixes with timestamps for daily log automation*",
      NL, NL,
      DASH, SP, today, COLON, SP,
      "Added accomplishment logging framework to CLAUDE.md", NL>>

GUIDELINES_SECTION ==
    <<GUIDE, NL, NL,
      "When working on this project, Claude Code should update the \"Recent Accomplishments\" section with:", NL,
      DASH, SP, "Date in YYYY-MM-DD format", NL,
      DASH, SP, "Brief description of what was accomplished", NL,
      DASH, SP, "File references when relevant (e.g., \"Fixed bug in parser.py:45\")", NL,
      DASH, SP, "Commit hashes for significant changes", NL,
      DASH, SP, "Deployment or release information", NL>>

\* variant: update_claude_md without the test for the section
has_accomplishment_section_unchecked(text) == FALSE

\* "## Recent Accomplishments" in content: some token's spelling holds it
has_accomplishment_section(text) ==
    \E i \in 1..Len(text) : text[i] \in {REC, H3REC}

\* "## Accomplishment Logging Guidelines" in content
HasGuidelines(text) == \E i \in 1..Len(text) : text[i] = GUIDE

\* line.startswith('## ')
StartsWithH2Space(line) ==
    /\ line # <<>>
    /\ \/ Head(line) \in {DEV, REC, GUIDE}
       \/ Len(line) >= 2 /\ line[1] = H2 /\ line[2] = SP

\* insert_index: the index (from 0) of the first line after index 3 that
\* starts with '## ', len(lines) when there is none
InsertIndex(lines) ==
    LET hs == {i \in 4..(Len(lines) - 1) : StartsWithH2Space(lines[i + 1])}
    IN  IF hs = {} THEN Len(lines)
        ELSE CHOOSE i \in hs : \A j \in hs : i <= j

\* '\n'.join(new_content)
NewClaudeText(text, today) ==
    LET lines == SplitLines(text)
        insert_index == InsertIndex(lines)
    IN  JoinLines(SubSeq(lines, 1, insert_index)
                  \o << <<>>, ACCOMPLISHMENT_SECTION(today) >>
                  \o SubSeq(lines, insert_index + 1, Len(lines))
                  \o (IF ~HasGuidelines(text)
                      THEN << <<>>, GUIDELINES_SECTION >> ELSE <<>>))

\* a CLAUDE.md: whether open() and read() succeed, and its text
ClaudeFile(r, t) == [readable |-> r, text |-> t]

\* update_claude_md(file_path): the file afterwards and the value returned
update_claude_md(file) ==
    IF ~file.readable THEN [file |-> file, value |-> FALSE]
    ELSE IF has_accomplishment_section(file.text)
         THEN [file |-> file, value |-> FALSE]
         ELSE [file |-> ClaudeFile(TRUE, NewClaudeText(file.text, TargetDate)),
               value |-> TRUE]

----------------------------------------------------------------------------
(* SpecClaude: update_claude_md run again and again on one bounded file *)

MaxClaudeLines == 5
MaxRuns == 2

\* the lines of a CLAUDE.md of the model
ClaudeLineShapes ==
    { <<"text">>, <<H2, SP, "Setup">>, <<REC>>, <<H3REC>>, <<GUIDE>> }

ClaudeTexts ==
    {<<>>} \cup {JoinLines(ls) : ls \in SeqsUpTo(ClaudeLineShapes, MaxClaudeLines) \ {<<>>}}

InitClaude ==
    /\ claude_md \in {ClaudeFile(TRUE, t) : t \in ClaudeTexts} \cup {ClaudeFile(FALSE, <<>>)}
    /\ claude_before = claude_md
    /\ returned = FALSE
    /\ runs = 0
    /\ IdleMerge /\ IdleParse /\ IdleRun /\ IdleMain /\ IdleRace

\* one call of update_claude_md on the file
UpdateClaudeMd ==
    /\ runs < MaxRuns
    /\ claude_md' = update_claude_md(claude_md).file
    /\ returned' = update_claude_md(claude_md).value
    /\ runs' = runs + 1
    /\ UNCHANGED <<claude_before, mergeVars, parseVars, runVars, mainVars, raceVars>>

NextClaude == UpdateClaudeMd

SpecClaude == InitClaude /\ [][NextClaude]_vars

----------------------------------------------------------------------------
(* Claim about update_claude_md *)

\* the text contains "## Recent Accomplishments"
ContainsRecent(text) == \E i \in 1..Len(text) : text[i] \in {REC, H3REC}

\* how many times the text contains it
CountRecent(text) == Cardinality({i \in 1..Len(text) : text[i] \in {REC, H3REC}})

\* the elements of a occur in b in the order they have in a
RECURSIVE IsSubsequence(_, _)
IsSubsequence(a, b) ==
    IF a = <<>> THEN TRUE
    ELSE IF b = <<>> THEN FALSE
    ELSE IF Head(a) = Head(b) THEN IsSubsequence(Tail(a), Tail(b))
    ELSE IsSubsequence(a, Tail(b))

\* C14: on a (readable) file without "## Recent Accomplishments" the call
\* returns True and writes a file that contains the section and every
\* original line in its original relative order; on a file that contains it
\* the call returns False and leaves the file as it is; so after any
\* number of calls a file that lacked the section contains it exactly once
\* and a file that had it is what it was.
C14_InjectedOnce ==
    /\ [][(claude_md.readable /\ ~ContainsRecent(claude_md.text)) =>
            /\ returned'
            /\ ContainsRecent(claude_md'.text)
            /\ Contains(claude_md'.text, ACCOMPLISHMENT_SECTION(TargetDate))
            /\ IsSubsequence(SplitLines(claude_md.text), SplitLines(claude_md'.text))]_vars
    /\ [][ContainsRecent(claude_md.text) =>
            ~returned' /\ claude_md' = claude_md]_vars
    /\ []((runs >= 1 /\ claude_before.readable /\ ~ContainsRecent(claude_before.text)) =>
            CountRecent(claude_md.text) = 1)
    /\ []((runs >= 1 /\ ContainsRecent(claude_before.text)) =>
            claude_md = claude_before)

\* C14 witness: a file with a "## " heading after its fourth line and
\* without the section has been updated by the first call and left alone
\* by the second
C14_Witness ==
    /\ runs = 2
    /\ ~returned
    /\ claude_before.readable
    /\ ~ContainsRecent(claude_before.text)
    /\ InsertIndex(SplitLines(claude_before.text)) < Len(SplitLines(claude_before.text))
    /\ claude_md # claude_before
    /\ CountRecent(claude_md.text) = 1

=============================================================================
